---- MODULE Spec2Model ----
(***************************************************************************)
(* A model of src/main.js: the debounce utility, the isInViewport test and *)
(* the ScrollAnimations tracker, together with the host facilities they    *)
(* use (timers, the intersection observer, element geometry).              *)
(*                                                                         *)
(* Time is discrete (1 unit = 1 ms).  A timer set with setTimeout(f, w)    *)
(* becomes due when w units have passed, and time does not pass beyond a   *)
(* due timer: the timer task runs at its deadline.  At the deadline        *)
(* itself, other events of the same instant may be dispatched before or    *)
(* after the timer task.                                                   *)
(***************************************************************************)
EXTENDS Integers, Sequences, FiniteSets, TLC

\* ------------------------------------------------------------------ bounds
MaxWait == 2          \* DebounceSpec: wait ranges over 0..MaxWait
MaxCalls == 3         \* DebounceSpec: logged invocations of the wrapper
MaxScrolls == 3       \* ScrollSpec: logged scroll events
MaxSlack == 3         \* the clock runs to 2 * wait + MaxSlack
MaxEntries == 2       \* entries of ScrollAnimations.elements
MaxReport == 1        \* entries of one observer report
MaxCoord == 12        \* GeomSpec: rectangle origins range over -2..MaxCoord
MaxSize == 2          \* GeomSpec: rectangle sides range over 0..MaxSize
MaxMenuEvents == 3
MaxBurst == 2    \* MenuSpec: logged click and keydown events

\* -------------------------------------------------------- program constants
ScrollWait == 16      \* debounce(..., 16) in bindScrollEvents

Undefined == 0        \* `let timeout;` : no handle stored yet
Null == "null"        \* an absent element reference
Elems == {"e1", "e2"} \* element references
Args == {"a", "b"}    \* arguments passed to a debounced wrapper
ScrollEvent == "scroll"
AnimationTypes == {"fadeInScale", "slideUp"}
DefaultAnimationType == "fadeInScale"   \* addElement's default parameter
ThresholdTenths == 1  \* isInViewport's default threshold 0.1, in tenths
Keys == {"Enter", " ", "Escape", "Tab", "a"}   \* event.key of a keydown event
NoCall == [op |-> "none"]

VARIABLES
    now,        \* observation clock (advanced only in the timed specifications)
    wait,       \* debounce: the closure's `wait`
    timeout,    \* debounce: the closure's `timeout` (a timer handle)
    timers,     \* host: active timers, handle -> [left, args]
    calls,      \* log: invocations of the wrapper, <<[at, args], ...>>
    execs,      \* log: executions of func, <<[at, args], ...>>
    elements,   \* ScrollAnimations.elements
    observed,   \* the observer's observation targets
    classList,  \* elements whose classList holds 'animate'
    addCalls,   \* element -> number of classList.add('animate') calls
    unobserveCalls, \* element -> number of observer.unobserve calls
    attempts,   \* element -> the paths that called animateElement for it
    error,      \* whether a handler of the tracker has thrown
    lastCall,   \* log: the latest call made to the tracker (kept in ApiSpec)
    menu,       \* the HamburgerMenu, its element's attributes and timers
    menuLog,    \* log: events sent to the menu and what they caused
    rect,       \* element -> getBoundingClientRect()
    viewport    \* [innerHeight, innerWidth, clientHeight, clientWidth]

debounceVars == <<wait, timeout, timers>>
logVars == <<calls, execs>>
trackerVars == <<elements, observed, classList, addCalls, unobserveCalls, attempts, error>>
menuVars == <<menu, menuLog>>
geometryVars == <<rect, viewport>>
vars == <<now, wait, timeout, timers, calls, execs, elements, observed,
          classList, addCalls, unobserveCalls, attempts, error, lastCall,
          menu, menuLog, rect, viewport>>

\* ------------------------------------------------------------ host timers
NoTimers == [h \in {} |-> 0]

\* clearTimeout(id): cancels the timer if it is active, else does nothing.
clearTimeout(ts, id) == [h \in DOMAIN ts \ {id} |-> ts[h]]

\* The handle setTimeout returns: one that names no active timer and is not
\* the handle the closure still stores (handles are never reused while a
\* reference to them is live).
freshHandle(ts, cur) ==
    CHOOSE h \in 1..(Cardinality(DOMAIN ts) + 2) :
        /\ h \notin DOMAIN ts
        /\ h # cur
        /\ \A k \in 1..(h - 1) : k \in DOMAIN ts \/ k = cur

setTimeout(ts, h, delay, args) == ts @@ (h :> [left |-> delay, args |-> args])

Due(h) == h \in DOMAIN timers /\ timers[h].left = 0

\* ---------------------------------------------------------------- debounce
\* A step of the debounce closure yields the new timer state and `run`, the
\* argument lists func is called with during the step.
Schedule(ts, args) ==
    LET h == freshHandle(ts, timeout)
    IN [timers |-> setTimeout(ts, h, wait, args), timeout |-> h, run |-> <<>>]

\* The wrapper without the clearTimeout of line 23.
executedFunctionNoClear(args) == Schedule(timers, args)

\* The wrapper running func at once when wait = 0 (a leading-edge call).
executedFunctionEager(args) ==
    IF wait = 0
    THEN [timers |-> timers, timeout |-> timeout, run |-> <<args>>]
    ELSE Schedule(clearTimeout(timers, timeout), args)

\* The wrapper scheduling `later` with the arguments of the pending call
\* instead of its own.
executedFunctionStaleArgs(args) ==
    Schedule(clearTimeout(timers, timeout),
             IF timeout \in DOMAIN timers THEN timers[timeout].args ELSE args)

\* The wrapper with `if (!timeout)` in place of the clearTimeout of line 23:
\* it schedules only while no handle is stored.
executedFunctionGuarded(args) ==
    IF timeout = Undefined
    THEN Schedule(timers, args)
    ELSE [timers |-> timers, timeout |-> timeout, run |-> <<>>]

\* executedFunction(...args): clearTimeout(timeout), then
\* timeout = setTimeout(later, wait).  func is not called.
executedFunction(args) == Schedule(clearTimeout(timers, timeout), args)

\* later(), run by the host as the task of the due timer h: the host drops h
\* from the active timers, then clearTimeout(timeout); func(...args).
\* later that clears the timer but does not call func.
laterNoCall(h) ==
    [timers |-> clearTimeout(clearTimeout(timers, h), timeout),
     timeout |-> timeout,
     run |-> <<>>]

later(h) ==
    [timers |-> clearTimeout(clearTimeout(timers, h), timeout),
     timeout |-> timeout,
     run |-> <<timers[h].args>>]

\* ------------------------------------------------------------------- time
Horizon == 2 * wait + MaxSlack

\* d units of time pass; no timer becomes overdue.
Elapse(d) ==
    /\ \A h \in DOMAIN timers : timers[h].left >= d
    /\ timers' = [h \in DOMAIN timers |-> [timers[h] EXCEPT !.left = @ - d]]
    /\ UNCHANGED <<wait, timeout>>

\* -------------------------------------------------- a debounced recorder
\* func of the debounce contract: record(x) appends to the execution log.
record(log, x) == Append(log, [at |-> now, args |-> x])

\* The execution log after func was called with each argument list of run.
RECURSIVE recordAll(_, _)
recordAll(log, run) ==
    IF run = <<>> THEN log ELSE recordAll(record(log, Head(run)), Tail(run))

Invoke(a) ==
    /\ Len(calls) < MaxCalls
    /\ LET r == executedFunction(a)
       IN /\ timers' = r.timers
          /\ timeout' = r.timeout
          /\ execs' = recordAll(execs, r.run)
    /\ calls' = Append(calls, [at |-> now, args |-> a])
    /\ UNCHANGED <<now, wait, trackerVars, geometryVars, lastCall, menuVars>>

RecorderFired ==
    \E h \in DOMAIN timers :
        /\ Due(h)
        /\ LET r == later(h)
           IN /\ timers' = r.timers
              /\ timeout' = r.timeout
              /\ execs' = recordAll(execs, r.run)
        /\ UNCHANGED <<now, wait, calls, trackerVars, geometryVars, lastCall, menuVars>>

ClockTick ==
    /\ now < Horizon
    /\ Elapse(1)
    /\ now' = now + 1
    /\ UNCHANGED <<logVars, trackerVars, geometryVars, lastCall, menuVars>>

\* ------------------------------------------------------------ HamburgerMenu
\* Boolean.prototype.toString()
toString(b) == IF b THEN "true" ELSE "false"

\* new HamburgerMenu(element): isActive = false; init() returns at once for an
\* absent element, else binds the listeners and sets aria-expanded and role.
\* `active` is whether the element's classList holds 'active', which the
\* page decides initially; `pending` counts the click animation's timers.
HamburgerMenu(element, initiallyActive) ==
    IF element = Null
    THEN [element |-> Null, isActive |-> FALSE, bound |-> FALSE, active |-> FALSE,
          ariaExpanded |-> "none", role |-> "none", transform |-> "none",
          pending |-> 0, prevented |-> 0, dispatched |-> <<>>]
    ELSE [element |-> element, isActive |-> FALSE, bound |-> TRUE,
          active |-> initiallyActive,
          ariaExpanded |-> "false", role |-> "button", transform |-> "none",
          pending |-> 0, prevented |-> 0, dispatched |-> <<>>]

\* toggle(): flip isActive, classList.toggle('active'), set aria-expanded to
\* isActive.toString(), dispatch menuToggle with detail {isActive}.
toggle(m) ==
    [m EXCEPT !.isActive = ~m.isActive,
              !.active = ~m.active,
              !.ariaExpanded = toString(~m.isActive),
              !.dispatched = Append(@, ~m.isActive)]

\* addClickAnimation(): scale(0.95) now, scale(1) from a timer 150 ms later.
addClickAnimation(m) ==
    [m EXCEPT !.transform = "scale(0.95)", !.pending = @ + 1]

preventDefault(m) == [m EXCEPT !.prevented = @ + 1]

\* handleClick(event)
handleClick(m) == addClickAnimation(toggle(preventDefault(m)))

\* handleKeydown without the key test of line 82.
handleKeydownAnyKey(m, key) == toggle(preventDefault(m))

\* handleKeydown(event)
handleKeydown(m, key) ==
    IF key = "Enter" \/ key = " " THEN toggle(preventDefault(m)) ELSE m

\* The callback of addClickAnimation's timer.
animationEnd(m) == [m EXCEPT !.transform = "scale(1)", !.pending = @ - 1]

NewMenuLog(initiallyActive) == [events |-> <<>>, initiallyActive |-> initiallyActive]

\* The menu as initializeModules builds it, on the page's hamburger element.
MenuBuilt ==
    /\ menu = HamburgerMenu("hamburgerMenu", FALSE)
    /\ menuLog = NewMenuLog(FALSE)

Click ==
    /\ menu.bound
    /\ Len(menuLog.events) < MaxMenuEvents
    /\ menu' = handleClick(menu)
    /\ menuLog' = [menuLog EXCEPT !.events = Append(@, "click")]
    /\ UNCHANGED <<now, debounceVars, logVars, trackerVars, geometryVars, lastCall>>

Keydown(key) ==
    /\ menu.bound
    /\ Len(menuLog.events) < MaxMenuEvents
    /\ menu' = handleKeydown(menu, key)
    /\ menuLog' = [menuLog EXCEPT !.events = Append(@, key)]
    /\ UNCHANGED <<now, debounceVars, logVars, trackerVars, geometryVars, lastCall>>

\* The oldest click animation timer's task runs.
AnimationEnd ==
    /\ menu.pending > 0
    /\ menu' = animationEnd(menu)
    /\ UNCHANGED <<now, debounceVars, logVars, trackerVars, geometryVars, lastCall, menuLog>>

\* constructor(): this.elements = []; nothing observed, marked or attempted.
NewTracker ==
    [elements |-> <<>>, observed |-> {}, classList |-> {},
     addCalls |-> [e \in Elems |-> 0], unobserveCalls |-> [e \in Elems |-> 0],
     attempts |-> [e \in Elems |-> {}], error |-> FALSE]

IsSA(S) ==
    /\ elements = S.elements
    /\ observed = S.observed
    /\ classList = S.classList
    /\ addCalls = S.addCalls
    /\ unobserveCalls = S.unobserveCalls
    /\ attempts = S.attempts
    /\ error = S.error

TrackerInit ==
    /\ IsSA(NewTracker)
    /\ rect = [e \in Elems |-> [top |-> 10, bottom |-> 14, left |-> 2, right |-> 6]]
    /\ viewport = [innerHeight |-> 10, innerWidth |-> 10,
                   clientHeight |-> 10, clientWidth |-> 10]
    /\ lastCall = NoCall
    /\ MenuBuilt

DebounceInit ==
    /\ now = 0
    /\ wait \in 0..MaxWait
    /\ timeout = Undefined
    /\ timers = NoTimers
    /\ calls = <<>>
    /\ execs = <<>>
    /\ TrackerInit

DebounceNext ==
    \/ \E a \in Args : Invoke(a)
    \/ RecorderFired
    \/ ClockTick

DebounceSpec == DebounceInit /\ [][DebounceNext]_vars

\* ------------------------------------------------------------ isInViewport
\* `window.innerHeight || document.documentElement.clientHeight`
windowHeight ==
    IF viewport.innerHeight # 0 THEN viewport.innerHeight ELSE viewport.clientHeight
windowWidth ==
    IF viewport.innerWidth # 0 THEN viewport.innerWidth ELSE viewport.clientWidth

\* isInViewport comparing the top edge with the whole window height.
isInViewportNoThreshold(element) ==
    /\ rect[element].top <= windowHeight
    /\ rect[element].bottom * 10 >= windowHeight * ThresholdTenths
    /\ rect[element].left <= windowWidth
    /\ rect[element].right >= 0

\* isInViewport(element) with the default threshold.  On integers the
\* comparisons with windowHeight * 0.9 and windowHeight * 0.1 in doubles
\* agree with the exact ones, written here in tenths.
isInViewport(element) ==
    /\ rect[element].top * 10 <= windowHeight * (10 - ThresholdTenths)
    /\ rect[element].bottom * 10 >= windowHeight * ThresholdTenths
    /\ rect[element].left <= windowWidth
    /\ rect[element].right >= 0

\* -------------------------------------------------------- ScrollAnimations
\* The tracker's state as one value, for the operators below.
SA == [elements |-> elements, observed |-> observed, classList |-> classList,
       addCalls |-> addCalls, unobserveCalls |-> unobserveCalls,
       attempts |-> attempts, error |-> error]

SetSA(S) ==
    /\ elements' = S.elements
    /\ observed' = S.observed
    /\ classList' = S.classList
    /\ addCalls' = S.addCalls
    /\ unobserveCalls' = S.unobserveCalls
    /\ attempts' = S.attempts
    /\ error' = S.error

\* this.elements.find(item => item.element === element): the index of the
\* first such entry, 0 when there is none.
find(items, element) ==
    LET hits == {i \in 1..Len(items) : items[i].element = element}
    IN IF hits = {} THEN 0 ELSE CHOOSE i \in hits : \A j \in hits : i <= j

\* addElement that resets the entry of an element it already tracks.
addElementReset(S, element, animationType) ==
    IF element = Null THEN S
    ELSE LET i == find(S.elements, element)
         IN IF i = 0
            THEN [S EXCEPT !.elements = Append(@, [element |-> element,
                                                   animationType |-> animationType,
                                                   animated |-> FALSE]),
                           !.observed = @ \cup {element}]
            ELSE [S EXCEPT !.elements[i].animated = FALSE,
                           !.observed = @ \cup {element}]

\* addElement without the `if (!element) return;` of line 148: the entry is
\* pushed and observer.observe(null) throws a TypeError.
addElementNoGuard(S, element, animationType) ==
    LET pushed == [S EXCEPT !.elements = Append(@, [element |-> element,
                                                    animationType |-> animationType,
                                                    animated |-> FALSE])]
    IN IF element = Null
       THEN [pushed EXCEPT !.error = TRUE]
       ELSE [pushed EXCEPT !.observed = @ \cup {element}]

\* addElement(element, animationType)
addElement(S, element, animationType) ==
    IF element = Null THEN S
    ELSE [S EXCEPT !.elements = Append(@, [element |-> element,
                                           animationType |-> animationType,
                                           animated |-> FALSE]),
                   !.observed = @ \cup {element}]

Reveal(S, i, element) ==
    [S EXCEPT !.elements[i].animated = TRUE,
              !.classList = @ \cup {element},
              !.addCalls[element] = @ + 1,
              !.observed = @ \ {element},
              !.unobserveCalls[element] = @ + 1]

\* animateElement without the `elementData.animated` test of line 161.
animateElementNoGuard(S, element) ==
    LET i == find(S.elements, element)
    IN IF i = 0 THEN S ELSE Reveal(S, i, element)

\* animateElement removing the entry it reveals from this.elements.
animateElementSplice(S, element) ==
    LET i == find(S.elements, element)
    IN IF i = 0 \/ S.elements[i].animated THEN S
       ELSE LET T == Reveal(S, i, element)
            IN [T EXCEPT !.elements =
                   SubSeq(T.elements, 1, i - 1) \o SubSeq(T.elements, i + 1, Len(T.elements))]

\* animateElement without the `!elementData` test of line 161: reading
\* elementData.animated of undefined throws a TypeError.
animateElementNoFindGuard(S, element) ==
    LET i == find(S.elements, element)
    IN IF i = 0 THEN [S EXCEPT !.error = TRUE]
       ELSE IF S.elements[i].animated THEN S ELSE Reveal(S, i, element)

\* animateElement(element)
animateElement(S, element) ==
    LET i == find(S.elements, element)
    IN IF i = 0 \/ S.elements[i].animated THEN S ELSE Reveal(S, i, element)

Attempt(S, element, path) == [S EXCEPT !.attempts[element] = @ \cup {path}]

\* The observer callback without the `if (entry.isIntersecting)` of line 131.
RECURSIVE observerCallbackAll(_, _, _)
observerCallbackAll(S, entries, i) ==
    IF i > Len(entries) THEN S
    ELSE observerCallbackAll(
             animateElement(Attempt(S, entries[i].target, "observer"),
                            entries[i].target),
             entries, i + 1)

\* The observer callback: entries.forEach(entry => ...), from entry i on.
RECURSIVE observerCallback(_, _, _)
observerCallback(S, entries, i) ==
    IF i > Len(entries) THEN S
    ELSE observerCallback(
             IF entries[i].isIntersecting
             THEN animateElement(Attempt(S, entries[i].target, "observer"),
                                 entries[i].target)
             ELSE S,
             entries, i + 1)

\* checkElementsInView: this.elements.forEach(item => ...), from entry i on.
RECURSIVE checkElementsInView(_, _)
checkElementsInView(S, i) ==
    IF i > Len(S.elements) THEN S
    ELSE checkElementsInView(
             IF ~S.elements[i].animated /\ isInViewport(S.elements[i].element)
             THEN animateElement(Attempt(S, S.elements[i].element, "poll"),
                                 S.elements[i].element)
             ELSE S,
             i + 1)

\* The scroll listener calling checkElementsInView directly, undebounced.
handleScrollRaw(ev) == [timers |-> timers, timeout |-> timeout, run |-> <<ev>>]

\* handleScroll = debounce(() => { this.checkElementsInView(); }, 16)
handleScroll(ev) == executedFunction(ev)

\* The tracker after the debounced function ran once per argument list of run.
RECURSIVE runScans(_, _)
runScans(S, run) ==
    IF run = <<>> THEN S ELSE runScans(checkElementsInView(S, 1), Tail(run))

\* --------------------------------------------------------------- geometry
Rect(top, height, left, width) ==
    [top |-> top, bottom |-> top + height, left |-> left, right |-> left + width]

Viewport(ih, iw, ch, cw) ==
    [innerHeight |-> ih, innerWidth |-> iw, clientHeight |-> ch, clientWidth |-> cw]

\* A 10 x 10 window and three placements: inside it, its top edge just past
\* 90% of the height, wholly to the left of the window.
CoarseViewports == {Viewport(10, 10, 10, 10)}
CoarseRects == {Rect(2, 4, 2, 4), Rect(10, 4, 2, 4), Rect(2, 4, -6, 4)}

FineViewports ==
    {Viewport(ih, iw, 5, 3) : ih \in {0, 10}, iw \in {0, 4}}
FineRects ==
    {Rect(t, h, l, w) : t \in (-2)..MaxCoord, h \in 0..MaxSize,
                        l \in {-3, 0, 4, 5}, w \in 0..MaxSize}

\* ---------------------------------------------------- events of the tracker
Tracked == {elements[i].element : i \in 1..Len(elements)}

\* A caller registers an element (or passes none); an omitted animationType
\* takes the parameter's default.
AddElement(element, given) ==
    /\ element = Null \/ Len(elements) < MaxEntries
    /\ SetSA(addElement(SA, element,
                        IF given = "undefined" THEN DefaultAnimationType ELSE given))
    /\ UNCHANGED <<now, debounceVars, logVars, geometryVars, lastCall, menuVars>>

\* The host delivers queued intersection entries of elements that were observed.
ObserverReport(entries) ==
    /\ SetSA(observerCallback(SA, entries, 1))
    /\ UNCHANGED <<now, debounceVars, logVars, geometryVars, lastCall, menuVars>>

Reports ==
    UNION {[1..n -> [target : Tracked, isIntersecting : BOOLEAN]] : n \in 1..MaxReport}

\* A scroll event is dispatched to handleScroll.
ScrollStep ==
    LET r == handleScroll(ScrollEvent)
    IN /\ timers' = r.timers
       /\ timeout' = r.timeout
       /\ SetSA(runScans(SA, r.run))

\* The due debounce timer's task runs.
ScanStep(h) ==
    /\ Due(h)
    /\ LET r == later(h)
       IN /\ timers' = r.timers
          /\ timeout' = r.timeout
          /\ SetSA(runScans(SA, r.run))

Scroll ==
    /\ ScrollStep
    /\ UNCHANGED <<now, wait, logVars, geometryVars, lastCall, menuVars>>

ScanFired ==
    \E h \in DOMAIN timers :
        /\ ScanStep(h)
        /\ UNCHANGED <<now, wait, logVars, geometryVars, lastCall, menuVars>>

\* Time passes until the pending timer is due (no clock is kept here, and an
\* event in between finds the same state but for the time left).
Tick ==
    /\ \E h \in DOMAIN timers :
          /\ timers[h].left > 0
          /\ Elapse(timers[h].left)
    /\ UNCHANGED <<now, logVars, trackerVars, geometryVars, lastCall, menuVars>>

\* Scrolling, resizing or reflow moves an element or resizes the window.
Layout ==
    /\ \/ \E e \in Elems : \E r \in CoarseRects \ {rect[e]} :
              rect' = [rect EXCEPT ![e] = r] /\ UNCHANGED viewport
       \/ viewport' \in CoarseViewports \ {viewport} /\ UNCHANGED rect
    /\ UNCHANGED <<now, debounceVars, logVars, trackerVars, lastCall, menuVars>>

\* The same events with the clock running and the logs kept.
TimedScroll ==
    /\ Len(calls) < MaxScrolls
    /\ ScrollStep
    /\ calls' = Append(calls, [at |-> now, args |-> ScrollEvent])
    /\ execs' = recordAll(execs, handleScroll(ScrollEvent).run)
    /\ UNCHANGED <<now, wait, geometryVars, lastCall, menuVars>>

TimedScan ==
    \E h \in DOMAIN timers :
        /\ ScanStep(h)
        /\ execs' = recordAll(execs, later(h).run)
        /\ UNCHANGED <<now, wait, calls, geometryVars, lastCall, menuVars>>

\* new ScrollAnimations(): elements = [], the observer created, the scroll
\* listener bound to debounce(..., 16).
Init ==
    /\ now = 0
    /\ wait = ScrollWait
    /\ timeout = Undefined
    /\ timers = NoTimers
    /\ calls = <<>>
    /\ execs = <<>>
    /\ TrackerInit

Next ==
    \/ \E e \in Elems \cup {Null} : \E t \in {"undefined", "slideUp"} : AddElement(e, t)
    \/ \E entries \in Reports : ObserverReport(entries)
    \/ Scroll
    \/ ScanFired
    \/ Tick
    \/ Layout

Spec == Init /\ [][Next]_vars

\* The state initializeModules leaves: the two circles registered with
\* 'fadeInScale', none revealed.
Bootstrapped ==
    IsSA(addElement(addElement(NewTracker, "e1", "fadeInScale"), "e2", "fadeInScale"))

ScrollInit ==
    /\ now = 0
    /\ wait = ScrollWait
    /\ timeout = Undefined
    /\ timers = NoTimers
    /\ calls = <<>>
    /\ execs = <<>>
    /\ Bootstrapped
    /\ lastCall = NoCall
    /\ MenuBuilt
    /\ rect = [e \in Elems |-> IF e = "e1" THEN Rect(2, 4, 2, 4) ELSE Rect(10, 4, 2, 4)]
    /\ viewport = Viewport(10, 10, 10, 10)

ScrollNext ==
    \/ TimedScroll
    \/ TimedScan
    \/ ClockTick

ScrollSpec == ScrollInit /\ [][ScrollNext]_vars

\* The bootstrapped tracker 16 ms after a scroll event, its timer due, with
\* the first circle and the window anywhere in the bounded ranges.
GeomInit ==
    /\ now = ScrollWait
    /\ wait = ScrollWait
    /\ timeout = 1
    /\ timers = (1 :> [left |-> 0, args |-> ScrollEvent])
    /\ calls = <<[at |-> 0, args |-> ScrollEvent]>>
    /\ execs = <<>>
    /\ Bootstrapped
    /\ lastCall = NoCall
    /\ MenuBuilt
    /\ rect \in {[e \in Elems |-> IF e = "e1" THEN r1 ELSE r2] :
                    r1 \in FineRects, r2 \in CoarseRects}
    /\ viewport \in FineViewports

GeomNext ==
    \/ TimedScan
    \/ \E entries \in Reports : ObserverReport(entries)

GeomSpec == GeomInit /\ [][GeomNext]_vars

\* One burst of scroll events while the observer reports, with a timer the
\* host runs once it is due and a clock that keeps going up to BurstHorizon.
BurstHorizon == wait + MaxSlack

BurstScroll ==
    /\ Len(calls) < MaxBurst
    /\ ScrollStep
    /\ calls' = Append(calls, [at |-> now, args |-> ScrollEvent])
    /\ execs' = recordAll(execs, handleScroll(ScrollEvent).run)
    /\ UNCHANGED <<now, wait, geometryVars, lastCall, menuVars>>

BurstTick ==
    /\ now < BurstHorizon
    /\ Elapse(1)
    /\ now' = now + 1
    /\ UNCHANGED <<logVars, trackerVars, geometryVars, lastCall, menuVars>>

FairScrollNext ==
    \/ BurstScroll
    \/ TimedScan
    \/ BurstTick
    \/ \E entries \in Reports : ObserverReport(entries)

FairScrollSpec ==
    /\ ScrollInit
    /\ [][FairScrollNext]_vars
    /\ WF_vars(TimedScan)
    /\ WF_vars(BurstTick)

\* The calls made to the tracker, each logged in lastCall: addElement by a
\* caller, animateElement by a caller, the observer callback by the host.
Resolve(given) == IF given = "undefined" THEN DefaultAnimationType ELSE given

AddElementCalled(element, given) ==
    /\ element = Null \/ Len(elements) < MaxEntries
    /\ SetSA(addElement(SA, element, Resolve(given)))
    /\ lastCall' = [op |-> "addElement", element |-> element, given |-> given]
    /\ UNCHANGED <<now, debounceVars, logVars, geometryVars, menuVars>>

AnimateElementCalled(element) ==
    /\ SetSA(animateElement(SA, element))
    /\ lastCall' = [op |-> "animateElement", element |-> element]
    /\ UNCHANGED <<now, debounceVars, logVars, geometryVars, menuVars>>

ReportDelivered(entries) ==
    /\ SetSA(observerCallback(SA, entries, 1))
    /\ lastCall' = [op |-> "report", entries |-> entries]
    /\ UNCHANGED <<now, debounceVars, logVars, geometryVars, menuVars>>

ApiNext ==
    \/ \E e \in Elems \cup {Null} : \E t \in {"undefined", "slideUp"} : AddElementCalled(e, t)
    \/ \E e \in Elems : AnimateElementCalled(e)
    \/ \E entries \in Reports : ReportDelivered(entries)

ApiSpec == Init /\ [][ApiNext]_vars

\* The menu alone, built on a present or an absent element whose classList
\* holds 'active' or not.
MenuInit ==
    /\ now = 0
    /\ wait = ScrollWait
    /\ timeout = Undefined
    /\ timers = NoTimers
    /\ calls = <<>>
    /\ execs = <<>>
    /\ IsSA(NewTracker)
    /\ rect = [e \in Elems |-> Rect(10, 4, 2, 4)]
    /\ viewport = Viewport(10, 10, 10, 10)
    /\ lastCall = NoCall
    /\ \E element \in {"hamburgerMenu", Null} : \E initiallyActive \in BOOLEAN :
          /\ menu = HamburgerMenu(element, initiallyActive)
          /\ menuLog = NewMenuLog(initiallyActive)

MenuNext ==
    \/ Click
    \/ \E key \in Keys : Keydown(key)
    \/ AnimationEnd

MenuSpec == MenuInit /\ [][MenuNext]_vars

\* ------------------------------------------------- claims on the debounce
Gap(i) == calls[i + 1].at - calls[i].at

\* calls[i..j] is a finished burst: inside it each call comes less than wait
\* after the previous one, no call precedes it or follows it within wait, and
\* its last deadline has passed.
Burst(i, j) ==
    /\ \A k \in i..(j - 1) : Gap(k) < wait
    /\ i = 1 \/ Gap(i - 1) > wait
    /\ IF j = Len(calls) THEN now > calls[j].at + wait ELSE Gap(j) > wait

ExecsIn(lo, hi) == {k \in 1..Len(execs) : lo <= execs[k].at /\ execs[k].at <= hi}

\* C1: a burst of N >= 1 invocations, each less than wait after the previous
\* one and followed by none within wait, executes func exactly once, with the
\* arguments of the last invocation, wait time units after that invocation.
DebounceCollapsing ==
    \A i \in 1..Len(calls) : \A j \in i..Len(calls) :
        Burst(i, j) =>
            \E k \in 1..Len(execs) :
                /\ ExecsIn(calls[i].at, calls[j].at + wait) = {k}
                /\ execs[k] = [at |-> calls[j].at + wait, args |-> calls[j].args]

\* A finished burst of three invocations at three instants, its first and
\* last arguments different, has been executed.
DebounceCollapsingWitness ==
    /\ Len(calls) = 3
    /\ Burst(1, 3)
    /\ calls[1].at < calls[2].at /\ calls[2].at < calls[3].at
    /\ calls[1].args # calls[3].args
    /\ Len(execs) = 1

\* C2: at most one scheduled execution is outstanding, and it is the one whose
\* handle the wrapper stores: every invocation cancelled the one before it.
AtMostOneScheduled ==
    /\ Cardinality(DOMAIN timers) <= 1
    /\ DOMAIN timers \subseteq {timeout}

\* A second invocation arrived while the first execution was still scheduled.
AtMostOneScheduledWitness ==
    /\ Len(calls) >= 2
    /\ execs = <<>>
    /\ calls[2].at < calls[1].at + wait
    /\ timers # NoTimers

AllSpaced == \A k \in 1..(Len(calls) - 1) : Gap(k) > wait

\* C3: when every invocation comes more than wait after the previous one, the
\* executions are the invocations, in order, each with its own arguments (the
\* last one once its deadline has passed).
DebounceSpacing ==
    AllSpaced =>
        /\ Len(execs) <= Len(calls)
        /\ \A i \in 1..Len(execs) :
              execs[i] = [at |-> calls[i].at + wait, args |-> calls[i].args]
        /\ \A i \in 1..Len(calls) :
              (i < Len(calls) \/ now > calls[i].at + wait) => i <= Len(execs)

\* Two spaced invocations with different arguments have both been executed.
DebounceSpacingWitness ==
    /\ AllSpaced
    /\ Len(calls) >= 2
    /\ Len(execs) = Len(calls)
    /\ calls[1].args # calls[2].args

\* C4: an invocation of the wrapper does not execute func, whatever wait is:
\* the step that logs the invocation changes the timer state only.
InvocationDefers ==
    [][calls' # calls =>
          /\ execs' = execs
          /\ UNCHANGED <<now, wait, trackerVars, geometryVars, lastCall, menuVars>>
          /\ DOMAIN timers' = {timeout'}]_vars

\* With wait = 0 an invocation has been made and its execution is still to
\* come, after an earlier invocation was executed by its own timer task.
InvocationDefersWitness ==
    /\ wait = 0
    /\ Len(calls) = 2
    /\ Len(execs) = 1
    /\ \E h \in DOMAIN timers : Due(h)

\* -------------------------------------------------- claims on the tracker
Entries == 1..Len(elements)

\* C5: an entry whose animated flag is true keeps its place and stays as it
\* is, flag included, in every step.
RevealMonotonic ==
    [][\A i \in Entries :
          elements[i].animated =>
              i <= Len(elements') /\ elements'[i] = elements[i]]_vars

\* A revealed element was registered again after its reveal.
RevealMonotonicWitness ==
    \E i \in Entries : \E j \in Entries :
        /\ i < j
        /\ elements[i].element = elements[j].element
        /\ elements[i].animated

IsRevealed(e) == \E i \in Entries : elements[i].element = e /\ elements[i].animated

\* C6: for every element the marker is applied and unobserve is called exactly
\* once if it has been revealed and not at all otherwise, however often the
\* observer and the poll scan have called the reveal procedure for it.
RevealOnce ==
    \A e \in Elems :
        /\ addCalls[e] = (IF IsRevealed(e) THEN 1 ELSE 0)
        /\ unobserveCalls[e] = addCalls[e]
        /\ e \in classList <=> IsRevealed(e)

\* Both the observer callback and the poll scan called the reveal procedure
\* for one element.
RevealOnceWitness ==
    \E e \in Elems : attempts[e] = {"observer", "poll"} /\ addCalls[e] = 1

\* C7: no element with a revealed entry is registered with the observer.
NoRevealedObserved ==
    \A i \in Entries : elements[i].animated => elements[i].element \notin observed

RECURSIVE Total(_, _)
Total(f, S) ==
    IF S = {} THEN 0 ELSE LET x == CHOOSE x \in S : TRUE IN f[x] + Total(f, S \ {x})

Unrevealed(items) == Cardinality({i \in 1..Len(items) : ~items[i].animated})

\* The number of reveals performed in a step.
RevealsInStep == Total(addCalls', Elems) - Total(addCalls, Elems)

\* C8 as claimed: each reveal takes one entry out of the collection the poll
\* scan iterates.
RevealLeavesCollection ==
    [][RevealsInStep > 0 => Len(elements') = Len(elements) - RevealsInStep]_vars

\* C8 as amended: a reveal leaves the collection the poll scan iterates as
\* long as it was, every entry in its place, and lowers the number of
\* unrevealed entries by exactly one.
RevealKeepsEntry ==
    [][RevealsInStep > 0 =>
          /\ Len(elements') = Len(elements)
          /\ \A i \in Entries : elements'[i].element = elements[i].element
          /\ Unrevealed(elements') = Unrevealed(elements) - RevealsInStep]_vars

\* Two entries were revealed by poll scans and are both still in the collection.
RevealKeepsEntryWitness ==
    /\ Len(elements) = 2
    /\ \A i \in Entries : elements[i].animated /\ attempts[elements[i].element] = {"poll"}

\* The visibility test of C9, on the rectangle and the window as they are.
OverlapsByThreshold(e) ==
    /\ 10 * rect[e].top <= 9 * windowHeight
    /\ 10 * rect[e].bottom >= windowHeight
    /\ rect[e].left <= windowWidth
    /\ rect[e].right >= 0

\* C9: a poll scan reveals an entry only if its element passes the visibility
\* test at the time of the scan; an entry that fails it stays unrevealed.
NoPrematureReveal ==
    [][execs' # execs =>
          \A i \in Entries :
              ~elements[i].animated /\ elements'[i].animated =>
                  OverlapsByThreshold(elements[i].element)]_vars

\* A scan has run that revealed the second circle and left the first, which
\* lies wholly below 1.1 window heights, unrevealed.
NoPrematureRevealWitness ==
    /\ execs # <<>>
    /\ ~elements[1].animated
    /\ windowHeight > 0
    /\ 10 * rect[elements[1].element].top > 11 * windowHeight
    /\ elements[2].animated
    /\ attempts[elements[2].element] = {"poll"}

\* C10: no scan runs inside a scroll event; a scan runs 16 ms after the most
\* recent scroll event; a finished burst of scroll events less than 16 ms
\* apart has caused exactly one scan, 16 ms after its last event; there are no
\* more scans than scroll events; consecutive scans are at least 16 ms apart.
ScanDebounced ==
    /\ [][calls' # calls => execs' = execs]_vars
    /\ [][execs' # execs =>
             /\ Len(execs') = Len(execs) + 1
             /\ calls # <<>>
             /\ calls[Len(calls)].at + ScrollWait = now]_vars
    /\ [](\A i \in 1..Len(calls) : \A j \in i..Len(calls) :
             Burst(i, j) =>
                 \E k \in 1..Len(execs) :
                     /\ ExecsIn(calls[i].at, calls[j].at + ScrollWait) = {k}
                     /\ execs[k].at = calls[j].at + ScrollWait)
    /\ [](Len(execs) <= Len(calls))
    /\ [](\A k \in 1..(Len(execs) - 1) : execs[k + 1].at - execs[k].at >= ScrollWait)

\* A burst of two scroll events caused one scan, and a later scroll event a
\* second scan.
ScanDebouncedWitness ==
    /\ Len(calls) = 3
    /\ 0 < Gap(1) /\ Gap(1) < ScrollWait
    /\ Len(execs) = 2

\* C11: addElement with an absent element changes nothing of the tracker and
\* throws nothing; addElement with a present element appends one unrevealed
\* entry for it (with the given or the default animation type), registers the
\* element with the observer and changes nothing else.
AddElementEffect ==
    [][lastCall'.op = "addElement" =>
          IF lastCall'.element = Null
          THEN UNCHANGED trackerVars /\ ~error'
          ELSE /\ elements' = Append(elements,
                                     [element |-> lastCall'.element,
                                      animationType |-> Resolve(lastCall'.given),
                                      animated |-> FALSE])
               /\ observed' = observed \cup {lastCall'.element}
               /\ UNCHANGED <<classList, addCalls, unobserveCalls, attempts, error>>
               /\ ~error']_vars

\* addElement was called with no element on a tracker that holds a revealed
\* and an unrevealed entry.
AddElementEffectWitness ==
    /\ lastCall.op = "addElement"
    /\ lastCall.element = Null
    /\ Len(elements) = 2
    /\ elements[1].animated /\ ~elements[2].animated
    /\ ~error

\* The elements a report reveals: those it reports as intersecting that are
\* tracked and whose entry (the one find returns) is unrevealed.
Intersecting(entries) ==
    {entries[k].target : k \in {j \in DOMAIN entries : entries[j].isIntersecting}}
ToReveal(entries) ==
    {e \in Intersecting(entries) :
        find(elements, e) # 0 /\ ~elements[find(elements, e)].animated}

\* C12: an observer report reveals exactly the tracked, unrevealed elements it
\* reports as intersecting (flag set, marker applied once, unobserved once);
\* elements it reports as not intersecting, and elements it does not mention,
\* keep their flag, marker and observer registration; nothing is thrown.
ReportEffect ==
    [][lastCall'.op = "report" =>
          LET R == ToReveal(lastCall'.entries)
          IN /\ elements' = [i \in DOMAIN elements |->
                               IF elements[i].element \in R
                                  /\ i = find(elements, elements[i].element)
                               THEN [elements[i] EXCEPT !.animated = TRUE]
                               ELSE elements[i]]
             /\ classList' = classList \cup R
             /\ observed' = observed \ R
             /\ addCalls' = [e \in Elems |-> addCalls[e] + IF e \in R THEN 1 ELSE 0]
             /\ unobserveCalls' =
                    [e \in Elems |-> unobserveCalls[e] + IF e \in R THEN 1 ELSE 0]
             /\ ~error']_vars

\* A report with isIntersecting = false for an unrevealed element was
\* delivered after another element had been revealed.
ReportEffectWitness ==
    /\ lastCall.op = "report"
    /\ \E k \in DOMAIN lastCall.entries :
          /\ ~lastCall.entries[k].isIntersecting
          /\ lastCall.entries[k].target \in observed
          /\ lastCall.entries[k].target \notin classList
    /\ classList # {}

\* C13: animateElement called for an element that is not tracked changes
\* nothing: no entry is added or changed, the marker is not applied, unobserve
\* is not called, and nothing is thrown.
UntrackedRevealIgnored ==
    [][lastCall'.op = "animateElement" /\ lastCall'.element \notin Tracked =>
          /\ elements' = elements
          /\ classList' = classList
          /\ addCalls' = addCalls
          /\ unobserveCalls' = unobserveCalls
          /\ observed' = observed
          /\ ~error']_vars

\* animateElement was called for an untracked element while another element
\* was tracked.
UntrackedRevealIgnoredWitness ==
    /\ lastCall.op = "animateElement"
    /\ lastCall.element \notin Tracked
    /\ Tracked # {}
    /\ ~error

\* C14: after a poll scan, every tracked entry whose element passed the
\* visibility test at scan time is revealed, the same element registered more
\* than once included.
PollScanRevealsVisible ==
    [][ScanFired =>
          \A i \in Entries :
              isInViewport(elements[i].element) => elements'[i].animated]_vars

\* C15: in every reachable state, the element of every unrevealed entry is
\* registered with the observer.
UnrevealedObserved ==
    \A i \in Entries : ~elements[i].animated => elements[i].element \in observed

\* C16: between handlers, the element of a tracked entry carries 'animate'
\* exactly when that entry is revealed.
MarkerMatchesFlag ==
    \A i \in Entries : (elements[i].element \in classList) <=> elements[i].animated

\* The scan of the n-th scroll event can run within the time modelled.
ScanPending(n) ==
    /\ Len(calls) = n
    /\ timeout \in DOMAIN timers
    /\ now + timers[timeout].left <= BurstHorizon

\* The scans that ran after the latest scroll event.
ExecsSinceLastScroll == {k \in 1..Len(execs) : execs[k].at > calls[Len(calls)].at}

\* C17: with a timer that the host runs once it is due, the scan pending after
\* a scroll event runs unless another scroll event arrives, and runs once, 16 ms
\* after the latest event; between scroll events less than 16 ms apart no scan
\* runs, and while the timer is pending and not due an element is revealed
\* only by an observer report.
ScanAfterScrollStops ==
    /\ \A n \in 1..(MaxBurst + 1) :
          ScanPending(n) ~>
              \/ Len(calls) > n
              \/ /\ Len(calls) = n
                 /\ \E k \in 1..Len(execs) : execs[k].at = calls[n].at + ScrollWait
    /\ [](calls # <<>> =>
             /\ Cardinality(ExecsSinceLastScroll) <= 1
             /\ \A k \in ExecsSinceLastScroll :
                    execs[k].at = calls[Len(calls)].at + ScrollWait
             /\ now > calls[Len(calls)].at + ScrollWait => ExecsSinceLastScroll # {})
    /\ [](\A i \in 1..(Len(calls) - 1) :
             Gap(i) < ScrollWait =>
                 \A k \in 1..Len(execs) :
                     execs[k].at <= calls[i].at \/ execs[k].at > calls[i + 1].at)
    /\ [][/\ classList' # classList
          /\ timeout \in DOMAIN timers
          /\ timers[timeout].left > 0
          => /\ execs' = execs
             /\ \A e \in classList' \ classList :
                    attempts'[e] = attempts[e] \cup {"observer"}]_vars

\* Two scroll events less than 16 ms apart; during them the observer revealed
\* e2, and the one scan, 16 ms after the second event, revealed e1.
ScanAfterScrollStopsWitness ==
    /\ Len(calls) = 2
    /\ 0 < Gap(1) /\ Gap(1) < ScrollWait
    /\ Len(execs) = 1
    /\ execs[1].at = calls[2].at + ScrollWait
    /\ attempts["e1"] = {"poll"}
    /\ attempts["e2"] = {"observer"}
    /\ classList = {"e1", "e2"}

\* The events delivered to the menu that toggle it.
Toggling == {"click", "Enter", " "}
Toggles == Cardinality({k \in 1..Len(menuLog.events) : menuLog.events[k] \in Toggling})

\* The menu was built on a present element that did not carry 'active'.
MenuStartsInactive == menu.element # Null /\ ~menuLog.initiallyActive

\* C18: for a menu built on a present element without 'active', after any
\* clicks and keydowns aria-expanded is the string form of isActive and the
\* element carries 'active' exactly when isActive; a click or an Enter/Space
\* keydown flips isActive once and dispatches one menuToggle event carrying
\* the new value; a keydown of any other key changes nothing of the menu.
MenuConsistent ==
    /\ [](MenuStartsInactive =>
             /\ menu.ariaExpanded = toString(menu.isActive)
             /\ menu.active <=> menu.isActive
             /\ menu.isActive <=> (Toggles % 2 = 1)
             /\ Len(menu.dispatched) = Toggles)
    /\ [][MenuStartsInactive /\ menuLog' # menuLog =>
             IF menuLog'.events[Len(menuLog'.events)] \in Toggling
             THEN /\ menu'.isActive = ~menu.isActive
                  /\ menu'.dispatched = Append(menu.dispatched, menu'.isActive)
             ELSE menu' = menu]_vars

\* A click, a Space keydown and an Escape keydown were delivered to a menu
\* that started inactive; it is inactive again.
MenuConsistentWitness ==
    /\ MenuStartsInactive
    /\ Len(menuLog.events) = 3
    /\ \A ev \in {"click", " ", "Escape"} :
           \E k \in 1..3 : menuLog.events[k] = ev
    /\ ~menu.isActive
    /\ menu.dispatched \in {<<TRUE, FALSE>>}

====
